---------------------------- MODULE Spec2Model ----------------------------
(***************************************************************************)
(* A model of dotwiz/plus.py: the DotWizPlus container (a dict subclass    *)
(* with a parallel attribute dictionary), its key normalisation            *)
(* (to_snake_case and the module-wide cache of normalised keys), and the   *)
(* operations that insert, read and delete keys.                           *)
(*                                                                         *)
(* A Python str is modelled as a sequence of characters, each character a  *)
(* one-element TLA+ string, so that 'key-3' is <<"k","e","y","-","3">>.    *)
(* A Python dict that is only read by key is modelled as a function; a     *)
(* dict that is iterated (an argument of update/__init__) is modelled as a *)
(* sequence of <<key, value>> pairs with distinct keys, in insertion       *)
(* order.                                                                  *)
(***************************************************************************)
EXTENDS Integers, Sequences, FiniteSets, TLC

(***************************************************************************)
(* Characters and the str methods the module uses.                         *)
(***************************************************************************)
LowerChars ==
    {"a", "b", "c", "d", "e", "f", "g", "h", "i", "j", "k", "l", "m",
     "n", "o", "p", "q", "r", "s", "t", "u", "v", "w", "x", "y", "z"}

UpperChars ==
    {"A", "B", "C", "D", "E", "F", "G", "H", "I", "J", "K", "L", "M",
     "N", "O", "P", "Q", "R", "S", "T", "U", "V", "W", "X", "Y", "Z"}

AsciiDigits == {"0", "1", "2", "3", "4", "5", "6", "7", "8", "9"}

\* A decimal digit outside ASCII (ARABIC-INDIC DIGIT THREE): str.isdigit()
\* is true of it, the pattern's \d matches it, and DIGIT_MAP has no entry
\* for it.  It is written as one character named by its code point.
UnicodeDigits == {"U+0663"}

DigitChars == AsciiDigits \cup UnicodeDigits

\* The characters \w matches / a Python identifier may contain.
WordChars == LowerChars \cup UpperChars \cup DigitChars \cup {"_"}

LowerOf ==
    ("A" :> "a") @@ ("B" :> "b") @@ ("C" :> "c") @@ ("D" :> "d") @@
    ("E" :> "e") @@ ("F" :> "f") @@ ("G" :> "g") @@ ("H" :> "h") @@
    ("I" :> "i") @@ ("J" :> "j") @@ ("K" :> "k") @@ ("L" :> "l") @@
    ("M" :> "m") @@ ("N" :> "n") @@ ("O" :> "o") @@ ("P" :> "p") @@
    ("Q" :> "q") @@ ("R" :> "r") @@ ("S" :> "s") @@ ("T" :> "t") @@
    ("U" :> "u") @@ ("V" :> "v") @@ ("W" :> "w") @@ ("X" :> "x") @@
    ("Y" :> "y") @@ ("Z" :> "z")

\* str.lower(), character by character.
Lower(s) ==
    [p \in 1..Len(s) |-> IF s[p] \in UpperChars THEN LowerOf[s[p]] ELSE s[p]]

\* str.isidentifier().
IsIdentifier(s) ==
    /\ Len(s) >= 1
    /\ s[1] \in LowerChars \cup UpperChars \cup {"_"}
    /\ \A p \in 1..Len(s) : s[p] \in WordChars

\* keyword.kwlist of the standard library.
KwList ==
    { <<"F", "a", "l", "s", "e">>,
      <<"N", "o", "n", "e">>,
      <<"T", "r", "u", "e">>,
      <<"a", "n", "d">>,
      <<"a", "s">>,
      <<"a", "s", "s", "e", "r", "t">>,
      <<"a", "s", "y", "n", "c">>,
      <<"a", "w", "a", "i", "t">>,
      <<"b", "r", "e", "a", "k">>,
      <<"c", "l", "a", "s", "s">>,
      <<"c", "o", "n", "t", "i", "n", "u", "e">>,
      <<"d", "e", "f">>,
      <<"d", "e", "l">>,
      <<"e", "l", "i", "f">>,
      <<"e", "l", "s", "e">>,
      <<"e", "x", "c", "e", "p", "t">>,
      <<"f", "i", "n", "a", "l", "l", "y">>,
      <<"f", "o", "r">>,
      <<"f", "r", "o", "m">>,
      <<"g", "l", "o", "b", "a", "l">>,
      <<"i", "f">>,
      <<"i", "m", "p", "o", "r", "t">>,
      <<"i", "n">>,
      <<"i", "s">>,
      <<"l", "a", "m", "b", "d", "a">>,
      <<"n", "o", "n", "l", "o", "c", "a", "l">>,
      <<"n", "o", "t">>,
      <<"o", "r">>,
      <<"p", "a", "s", "s">>,
      <<"r", "a", "i", "s", "e">>,
      <<"r", "e", "t", "u", "r", "n">>,
      <<"t", "r", "y">>,
      <<"w", "h", "i", "l", "e">>,
      <<"w", "i", "t", "h">>,
      <<"y", "i", "e", "l", "d">> }

\* keyword.iskeyword, bound to the parameter __is_keyword.
is_keyword(s) == s \in KwList

(***************************************************************************)
(* __SPECIAL_CASE_RE:                                                      *)
(*   \d[A-Z]+ | [A-Z]?[a-z\d]+ | [A-Z]{2,}(?=[A-Z][a-z]|\d|\W|$)           *)
(*   | \d+ | [A-Z]{2,} | [A-Z]                                             *)
(* Each alternative is the length of its match at position p of s (0: no   *)
(* match), found as the regex engine finds it: alternatives in order,      *)
(* greedy repetition, backtracking to shorter repetitions.                 *)
(***************************************************************************)
\* The length of the longest run of characters of class C starting at p.
RunLen(s, p, C) ==
    LET runs == {n \in 0..(Len(s) + 1 - p) : \A j \in 0..(n - 1) : s[p + j] \in C}
    IN  CHOOSE n \in runs : \A m \in runs : m <= n

\* \d[A-Z]+
Alt1(s, p) ==
    LET n == RunLen(s, p + 1, UpperChars)
    IN  IF s[p] \in DigitChars /\ n >= 1 THEN 1 + n ELSE 0

\* [A-Z]?[a-z\d]+ : the optional capital is taken first, and given up when
\* nothing of [a-z\d] follows it.
Alt2(s, p) ==
    LET taken   == RunLen(s, p + 1, LowerChars \cup DigitChars)
        skipped == RunLen(s, p, LowerChars \cup DigitChars)
    IN  IF s[p] \in UpperChars /\ taken >= 1 THEN 1 + taken ELSE skipped

\* (?=[A-Z][a-z]|\d|\W|$) at position q.
Lookahead(s, q) ==
    \/ q + 1 <= Len(s) /\ s[q] \in UpperChars /\ s[q + 1] \in LowerChars
    \/ q <= Len(s) /\ s[q] \in DigitChars
    \/ q <= Len(s) /\ s[q] \notin WordChars
    \/ q = Len(s) + 1

\* [A-Z]{2,}(?=...) : the longest run of two or more capitals after which
\* the lookahead holds.
Alt3(s, p) ==
    LET n  == RunLen(s, p, UpperChars)
        ok == {m \in 2..n : Lookahead(s, p + m)}
    IN  IF ok = {} THEN 0 ELSE CHOOSE m \in ok : \A k \in ok : k <= m

\* \d+
Alt4(s, p) == RunLen(s, p, DigitChars)

\* [A-Z]{2,}
Alt5(s, p) ==
    LET n == RunLen(s, p, UpperChars) IN IF n >= 2 THEN n ELSE 0

\* [A-Z]
Alt6(s, p) == IF s[p] \in UpperChars THEN 1 ELSE 0

\* The pattern at position p: the first alternative that matches.
SPECIAL_CASE_RE(s, p) ==
    CASE Alt1(s, p) > 0 -> Alt1(s, p)
      [] Alt2(s, p) > 0 -> Alt2(s, p)
      [] Alt3(s, p) > 0 -> Alt3(s, p)
      [] Alt4(s, p) > 0 -> Alt4(s, p)
      [] Alt5(s, p) > 0 -> Alt5(s, p)
      [] OTHER          -> Alt6(s, p)

\* re.findall from position p on: the non-overlapping matches, left to
\* right; a character where nothing matches is skipped.
RECURSIVE FindallFrom(_, _)
FindallFrom(s, p) ==
    IF p > Len(s) THEN << >>
    ELSE LET n == SPECIAL_CASE_RE(s, p)
         IN  IF n = 0 THEN FindallFrom(s, p + 1)
             ELSE <<SubSeq(s, p, p + n - 1)>> \o FindallFrom(s, p + n)

Findall(s) == FindallFrom(s, 1)

(***************************************************************************)
(* to_snake_case.                                                          *)
(***************************************************************************)
DIGIT_MAP ==
    ("0" :> "o") @@ ("1" :> "i") @@ ("2" :> "z") @@ ("3" :> "e") @@
    ("4" :> "o") @@ ("5" :> "s") @@ ("6" :> "s") @@ ("7" :> "z") @@
    ("8" :> "b") @@ ("9" :> "n")

\* __get(w[0], __default)
DigitLetter(c) == IF c \in DOMAIN DIGIT_MAP THEN DIGIT_MAP[c] ELSE "x"

\* SubstWord with DIGIT_MAP[w[0]] looked up only where it has an entry: a
\* digit the map does not hold is kept.
SubstWord_unmapped_kept(w) ==
    IF w[1] \in DOMAIN DIGIT_MAP THEN <<DIGIT_MAP[w[1]]>> \o Tail(w) ELSE w

\* One word of the comprehension: w, or its first character replaced when
\* w[0].isdigit().
SubstWord(w) ==
    IF w[1] \in DigitChars THEN <<DigitLetter(w[1])>> \o Tail(w) ELSE w

SubstDigits(ws) == [j \in 1..Len(ws) |-> SubstWord(ws[j])]

\* '_'.join(words)
RECURSIVE Join(_)
Join(ws) ==
    IF Len(ws) = 0 THEN << >>
    ELSE IF Len(ws) = 1 THEN ws[1]
    ELSE ws[1] \o <<"_">> \o Join(Tail(ws))

to_snake_case(string) == Lower(Join(SubstDigits(Findall(string))))


(***************************************************************************)
(* Values.  Every Python value is a record with a type tag t:              *)
(*   an int            [t |-> "int", v |-> n]                              *)
(*   a plain dict      [t |-> "dict", items |-> <<<<key, value>>, ...>>]   *)
(*   a plain list      [t |-> "list", elems |-> <<value, ...>>]            *)
(*   a DotWizPlus      [t |-> "DotWizPlus", map |-> f, attrs |-> g]        *)
(* where map is the storage of the dict base class (what dict.__setitem__  *)
(* and dict.__delitem__ act on) and attrs is the instance __dict__.        *)
(***************************************************************************)
PyInt(n) == [t |-> "int", v |-> n]

Dict(items) == [t |-> "dict", items |-> items]

List(elems) == [t |-> "list", elems |-> elems]

None == [t |-> "None"]

\* The exception a failed lookup raises (KeyError; AttributeError for
\* attribute access).
KeyError == [t |-> "KeyError"]

EmptyMap == [k \in {} |-> None]

\* DotWizPlus(): an instance with nothing stored.
EmptyDotWiz == [t |-> "DotWizPlus", map |-> EmptyMap, attrs |-> EmptyMap]

\* m[k] = v on a dict read by key.
SetKey(m, k, v) == [x \in (DOMAIN m) \cup {k} |-> IF x = k THEN v ELSE m[x]]

\* del m[k]
DelKey(m, k) == [x \in (DOMAIN m) \ {k} |-> m[x]]

\* The keys of a dict given as a sequence of pairs.
KeysOf(items) == {items[j][1] : j \in 1..Len(items)}

\* dict.update on a dict given as a sequence of pairs: a key already
\* present keeps its place and takes the new value, a new key is appended.
RECURSIVE DictUpdate(_, _)
DictUpdate(base, other) ==
    IF Len(other) = 0 THEN base
    ELSE LET k == other[1][1]
             v == other[1][2]
             b == IF k \in KeysOf(base)
                  THEN [j \in 1..Len(base) |->
                          IF base[j][1] = k THEN <<k, v>> ELSE base[j]]
                  ELSE Append(base, <<k, v>>)
         IN  DictUpdate(b, Tail(other))

(***************************************************************************)
(* __upsert_into_dot_wiz_plus__, __setitem_impl__ and __resolve_value__.   *)
(* Each takes the module-wide cache __SPECIAL_KEYS as it stands and        *)
(* returns the cache as it leaves it, beside its result.                   *)
(***************************************************************************)
RECURSIVE upsert_loop(_, _, _, _)
RECURSIVE resolve_value(_, _)
RECURSIVE resolve_list(_, _, _)

\* upsert_key with the cache entry written from key.lower() instead of
\* to_snake_case(key).
upsert_key_caches_lower(cache, key) ==
    IF key # Lower(key) \/ ~IsIdentifier(key)
    THEN IF key \in DOMAIN cache
         THEN [key |-> cache[key], cache |-> cache]
         ELSE [key |-> to_snake_case(key),
               cache |-> SetKey(cache, key, Lower(key))]
    ELSE [key |-> key, cache |-> cache]

\* Lines 98-102: the storage key of a key that is no keyword.
upsert_key(cache, key) ==
    IF key # Lower(key) \/ ~IsIdentifier(key)
    THEN IF key \in DOMAIN cache
         THEN [key |-> cache[key], cache |-> cache]
         ELSE [key |-> to_snake_case(key),
               cache |-> SetKey(cache, key, to_snake_case(key))]
    ELSE [key |-> key, cache |-> cache]

\* Lines 105-106, with n the storage key and the cache lines 98-102 leave.
upsert_set(self, n, value) ==
    [self  |-> [self EXCEPT !.map = SetKey(self.map, n.key, value),
                            !.attrs = SetKey(self.attrs, n.key, value)],
     cache |-> n.cache]

\* Lines 91-106: one key of the loop, its value already resolved.
upsert_store(self, cache, key, value) ==
    IF is_keyword(Lower(key))
    THEN [self  |-> [self EXCEPT
                       !.map = SetKey(self.map, key, value),
                       !.attrs = SetKey(self.attrs, Lower(key) \o <<"_">>, value)],
          cache |-> cache]
    ELSE upsert_set(self, upsert_key(cache, key), value)

\* upsert_input with the update the other way round: kwargs updated with
\* input_dict, so that the positional dict wins.
upsert_input_dict_wins(input_dict, kwargs) ==
    IF Len(kwargs) > 0
    THEN IF Len(input_dict) > 0 THEN DictUpdate(kwargs, input_dict) ELSE kwargs
    ELSE input_dict

\* Lines 68-76: the dict the loop iterates.
upsert_input(input_dict, kwargs) ==
    IF Len(kwargs) > 0
    THEN IF Len(input_dict) > 0 THEN DictUpdate(input_dict, kwargs) ELSE kwargs
    ELSE input_dict

\* __upsert_into_dot_wiz_plus__(self, input_dict, **kwargs)
upsert_into_dot_wiz_plus(self, cache, input_dict, kwargs) ==
    upsert_loop(self, cache, upsert_input(input_dict, kwargs), 1)

\* DotWizPlus(input_dict): __init__ on a new instance.
NewDotWizPlus(cache, input_dict) ==
    upsert_into_dot_wiz_plus(EmptyDotWiz, cache, input_dict, << >>)

\* A constructed instance, as a resolved value.
Resolved(r) == [value |-> r.self, cache |-> r.cache]

\* A resolved list, as a resolved value.
ResolvedList(r) == [value |-> List(r.elems), cache |-> r.cache]

\* Lines 83-89: the value of one key, resolved inline.
upsert_value(cache, value) ==
    IF value.t = "dict" THEN Resolved(NewDotWizPlus(cache, value.items))
    ELSE IF value.t = "list" THEN ResolvedList(resolve_list(cache, value.elems, 1))
    ELSE [value |-> value, cache |-> cache]

\* Lines 91-106 for the key, with v the value lines 83-89 resolved.
upsert_pair(self, key, v) == upsert_store(self, v.cache, key, v.value)

\* The rest of the loop, with s what the j-th key left.
upsert_rest(s, items, j) == upsert_loop(s.self, s.cache, items, j + 1)

\* Lines 78-106: the loop, from the j-th key on.
upsert_loop(self, cache, items, j) ==
    IF j > Len(items) THEN [self |-> self, cache |-> cache]
    ELSE upsert_rest(
             upsert_pair(self, items[j][1], upsert_value(cache, items[j][2])),
             items, j)

\* __resolve_value__(value, DotWizPlus) of dotwiz/common.py: a dict becomes
\* a DotWizPlus, a list has each element resolved, anything else is kept.
resolve_value(cache, value) ==
    IF value.t = "dict" THEN Resolved(NewDotWizPlus(cache, value.items))
    ELSE IF value.t = "list" THEN ResolvedList(resolve_list(cache, value.elems, 1))
    ELSE [value |-> value, cache |-> cache]

\* The resolved element e before the resolved elements r.
ResolvedCons(e, r) == [elems |-> <<e>> \o r.elems, cache |-> r.cache]

\* The list from the j-th element on, with e that element resolved.
resolve_from(e, elems, j) ==
    ResolvedCons(e.value, resolve_list(e.cache, elems, j + 1))

\* [__resolve_value__(e, DotWizPlus) for e in value], from the j-th on.
resolve_list(cache, elems, j) ==
    IF j > Len(elems) THEN [elems |-> << >>, cache |-> cache]
    ELSE resolve_from(resolve_value(cache, elems[j]), elems, j)

\* setitem_key without the write to the cache.
setitem_key_uncached(cache, key) ==
    IF key # Lower(key) \/ ~IsIdentifier(key)
    THEN IF key \in DOMAIN cache
         THEN [key |-> cache[key], cache |-> cache]
         ELSE [key |-> to_snake_case(key), cache |-> cache]
    ELSE [key |-> key, cache |-> cache]

\* Lines 121-125: the storage key of a key that is no keyword.
setitem_key(cache, key) ==
    IF key # Lower(key) \/ ~IsIdentifier(key)
    THEN IF key \in DOMAIN cache
         THEN [key |-> cache[key], cache |-> cache]
         ELSE [key |-> to_snake_case(key),
               cache |-> SetKey(cache, key, to_snake_case(key))]
    ELSE [key |-> key, cache |-> cache]

\* Lines 127-128, with n the storage key and the cache lines 121-125 leave.
setitem_set(self, n, value) ==
    [self  |-> [self EXCEPT !.map = SetKey(self.map, n.key, value),
                            !.attrs = SetKey(self.attrs, n.key, value)],
     cache |-> n.cache]

\* Lines 113, 116-128, with v the value line 114 resolved.
setitem_store(self, key, v) ==
    IF is_keyword(Lower(key))
    THEN [self  |-> [self EXCEPT
                       !.map = SetKey(self.map, key, v.value),
                       !.attrs = SetKey(self.attrs, Lower(key) \o <<"_">>, v.value)],
          cache |-> v.cache]
    ELSE setitem_set(self, setitem_key(v.cache, key), v.value)

\* __setitem_impl__(self, key, value)
setitem_impl(self, cache, key, value) ==
    setitem_store(self, key, resolve_value(cache, value))

\* make_dot_wiz_plus(*args, **kwargs), with args the one iterable of pairs
\* (empty when none is passed): kwargs.update(*args); DotWizPlus(kwargs).
make_dot_wiz_plus(cache, pairs, kwargs) ==
    NewDotWizPlus(cache, DictUpdate(kwargs, pairs))

\* DotWizPlus.__getitem__(self, key): self.__dict__[key]
getitem(self, key) ==
    IF key \in DOMAIN self.attrs THEN self.attrs[key] ELSE KeyError

\* Attribute access self.<name>: the class defines no __getattr__, so a
\* name that is no class attribute is looked up in the instance __dict__.
getattr(self, name) ==
    IF name \in DOMAIN self.attrs THEN self.attrs[name] ELSE KeyError

\* __delattr__ = __delitem__ = dict.__delitem__
delitem(self, key) ==
    IF key \in DOMAIN self.map
    THEN [self |-> [self EXCEPT !.map = DelKey(self.map, key)], ret |-> None]
    ELSE [self |-> self, ret |-> KeyError]

(***************************************************************************)
(* The keys, values and arguments the operations are called with.          *)
(***************************************************************************)
k_for == <<"f", "o", "r">>

k_For == <<"F", "o", "r">>

k_for_ == <<"f", "o", "r", "_">>

k_keyTwo == <<"k", "e", "y", "T", "w", "o">>

k_key_two == <<"k", "e", "y", "_", "t", "w", "o">>

k_key3 == <<"k", "e", "y", "-", "3">>

k_key_3 == <<"k", "e", "y", "_", "3">>

k_DeviceType == <<"D", "e", "v", "i", "c", "e", "T", "y", "p", "e">>

k_device_type == <<"d", "e", "v", "i", "c", "e", "_", "t", "y", "p", "e">>

k_HTTPResponse == <<"H", "T", "T", "P", "R", "e", "s", "p", "o", "n", "s", "e">>

k_123test == <<"1", "2", "3", "t", "e", "s", "t">>

k_ThisIsATest == <<"T", "h", "i", "s", "I", "s", "A", "T", "e", "s", "t">>

\* The most operations one behaviour performs.
MaxOps == 2

\* The most keys of a positional dict, and of the keyword arguments.
MaxPairs == 2

MaxKw == 1

\* The longest generated key the normaliser is run on.
MaxLen == 4

\* The containers of the program: two variables holding a DotWizPlus each.
Inst == {1, 2}

\* Keys that are inserted one at a time, and the names that are read and
\* deleted (the inserted keys and the names they are stored under).
Keys == {k_for, k_For, k_keyTwo, k_key_two}

Names == Keys \cup {k_for_}

Scalars == {PyInt(1), PyInt(2)}

NestedDict == Dict(<< <<k_keyTwo, PyInt(1)>> >>)

Values == Scalars \cup {NestedDict, List(<<NestedDict>>)}

SeqsUpTo(S, n) == UNION {[1..m -> S] : m \in 0..n}

DistinctKeys(items) ==
    \A a, b \in 1..Len(items) : items[a][1] = items[b][1] => a = b

\* The dicts of at most n keys among K, each with the value v.
DictsOver(K, v, n) == {m \in SeqsUpTo(K \X {v}, n) : DistinctKeys(m)}

\* The dicts passed whole.  A positional dict holds the value 1 and a
\* keyword argument the value 2, so that the origin of a stored value
\* shows.
InputDicts == DictsOver({k_for, k_keyTwo, k_key_two}, PyInt(1), MaxPairs)

Kwargs == DictsOver({k_keyTwo}, PyInt(2), MaxKw)

\* The dicts of the behaviours that end with one call of update or
\* make_dot_wiz_plus.
BulkDicts == DictsOver({k_for, k_For, k_keyTwo, k_key_two}, PyInt(1), MaxPairs)

BulkKwargs == DictsOver({k_for, k_keyTwo}, PyInt(2), MaxKw)

\* The characters of the generated keys: a lowercase and an uppercase
\* letter, an ASCII and a non-ASCII digit, a separator and the underscore.
NormAlphabet == {"a", "A", "1", "U+0663", "-", "_"}

NormInputs ==
    SeqsUpTo(NormAlphabet, MaxLen)
        \cup {k_key3, k_DeviceType, k_HTTPResponse, k_123test, k_ThisIsATest,
              k_keyTwo, k_for}

(***************************************************************************)
(* State.                                                                  *)
(*   dw            the DotWizPlus each program variable holds              *)
(*   SPECIAL_KEYS  the module-wide cache __SPECIAL_KEYS                    *)
(*   call          the last call made: its name and arguments              *)
(*   ret           what the last call returned or raised                   *)
(*   deleted       whether a key was deleted from the container since it   *)
(*                 was made                                                *)
(*   nops          the number of calls made                                *)
(*   string, words, out, pc   a run of to_snake_case(string): its local    *)
(*                 `words`, its return value and its position              *)
(***************************************************************************)
VARIABLES dw, SPECIAL_KEYS, call, ret, deleted, nops, string, words, out, pc

vars == <<dw, SPECIAL_KEYS, call, ret, deleted, nops, string, words, out, pc>>

norm_vars == <<string, words, out, pc>>

Call(op, i, key, value, input_dict, kwargs) ==
    [op |-> op, inst |-> i, key |-> key, value |-> value,
     input_dict |-> input_dict, kwargs |-> kwargs]

\* Both containers made by DotWizPlus(), the cache as the module sets it.
InitContainers ==
    /\ dw = [i \in Inst |-> EmptyDotWiz]
    /\ SPECIAL_KEYS = EmptyMap
    /\ call = Call("DotWizPlus", 1, << >>, None, << >>, << >>)
    /\ ret = None
    /\ deleted = [i \in Inst |-> FALSE]
    /\ nops = 0

Init ==
    /\ InitContainers
    /\ string = << >>
    /\ words = << >>
    /\ out = << >>
    /\ pc = "idle"

\* dw[i][key] = value and dw[i].<key> = value: __setattr__ = __setitem__ =
\* __setitem_impl__.
SetItem(i, key, value) ==
    LET r == setitem_impl(dw[i], SPECIAL_KEYS, key, value)
    IN  /\ nops < MaxOps
        /\ dw' = [dw EXCEPT ![i] = r.self]
        /\ SPECIAL_KEYS' = r.cache
        /\ call' = Call("setitem", i, key, value, << >>, << >>)
        /\ ret' = None
        /\ nops' = nops + 1
        /\ UNCHANGED <<deleted, norm_vars>>

\* dw[i].update(input_dict, **kwargs), and dw[i].__init__ (on a container
\* still empty, the constructor call DotWizPlus(input_dict, **kwargs)):
\* __init__ = update = __upsert_into_dot_wiz_plus__.
Update(i, input_dict, kwargs) ==
    LET r == upsert_into_dot_wiz_plus(dw[i], SPECIAL_KEYS, input_dict, kwargs)
    IN  /\ nops < MaxOps
        /\ dw' = [dw EXCEPT ![i] = r.self]
        /\ SPECIAL_KEYS' = r.cache
        /\ call' = Call("update", i, << >>, None, input_dict, kwargs)
        /\ ret' = None
        /\ nops' = nops + 1
        /\ UNCHANGED <<deleted, norm_vars>>

\* dw[i] = make_dot_wiz_plus(pairs, **kwargs)
Make(i, pairs, kwargs) ==
    LET r == make_dot_wiz_plus(SPECIAL_KEYS, pairs, kwargs)
    IN  /\ nops < MaxOps
        /\ dw' = [dw EXCEPT ![i] = r.self]
        /\ SPECIAL_KEYS' = r.cache
        /\ call' = Call("make_dot_wiz_plus", i, << >>, None, pairs, kwargs)
        /\ ret' = r.self
        /\ deleted' = [deleted EXCEPT ![i] = FALSE]
        /\ nops' = nops + 1
        /\ UNCHANGED norm_vars

\* del dw[i][key] and del dw[i].<key>
DelItem(i, key) ==
    LET r == delitem(dw[i], key)
    IN  /\ nops < MaxOps
        /\ dw' = [dw EXCEPT ![i] = r.self]
        /\ call' = Call("delitem", i, key, None, << >>, << >>)
        /\ ret' = r.ret
        /\ deleted' = [deleted EXCEPT ![i] = @ \/ r.ret = None]
        /\ nops' = nops + 1
        /\ UNCHANGED <<SPECIAL_KEYS, norm_vars>>

\* dw[i][key]
GetItem(i, key) ==
    /\ nops < MaxOps
    /\ call' = Call("getitem", i, key, None, << >>, << >>)
    /\ ret' = getitem(dw[i], key)
    /\ nops' = nops + 1
    /\ UNCHANGED <<dw, SPECIAL_KEYS, deleted, norm_vars>>

\* dw[i].<name>
GetAttr(i, name) ==
    /\ nops < MaxOps
    /\ call' = Call("getattr", i, name, None, << >>, << >>)
    /\ ret' = getattr(dw[i], name)
    /\ nops' = nops + 1
    /\ UNCHANGED <<dw, SPECIAL_KEYS, deleted, norm_vars>>

Next ==
    \/ \E i \in Inst, key \in Keys, value \in Values : SetItem(i, key, value)
    \/ \E i \in Inst, input_dict \in InputDicts, kwargs \in Kwargs :
          Update(i, input_dict, kwargs)
    \/ \E i \in Inst, pairs \in InputDicts, kwargs \in Kwargs :
          Make(i, pairs, kwargs)
    \/ \E i \in Inst, key \in Names : DelItem(i, key)
    \/ \E i \in Inst, key \in Names : GetItem(i, key)
    \/ \E i \in Inst, name \in Names : GetAttr(i, name)

Spec == Init /\ [][Next]_vars

(***************************************************************************)
(* The calls that take whole dicts, on their own: a container is filled    *)
(* by item assignments and then update or make_dot_wiz_plus is called      *)
(* once, with dicts of more keys.                                          *)
(***************************************************************************)
BeforeBulk == call.op \in {"DotWizPlus", "setitem"}

Populate(i, key, value) == BeforeBulk /\ SetItem(i, key, value)

BulkUpdate(i, input_dict, kwargs) == BeforeBulk /\ Update(i, input_dict, kwargs)

BulkMake(i, pairs, kwargs) == BeforeBulk /\ Make(i, pairs, kwargs)

NextBulk ==
    \/ \E i \in Inst, key \in Keys, value \in Values : Populate(i, key, value)
    \/ \E i \in Inst, input_dict \in BulkDicts, kwargs \in BulkKwargs :
          BulkUpdate(i, input_dict, kwargs)
    \/ \E i \in Inst, pairs \in BulkDicts, kwargs \in BulkKwargs :
          BulkMake(i, pairs, kwargs)

SpecBulk == Init /\ [][NextBulk]_vars

(***************************************************************************)
(* The normaliser on its own: to_snake_case(string) run statement by       *)
(* statement on a generated key, then DotWizPlus({string: value}).         *)
(***************************************************************************)
InitNorm ==
    /\ InitContainers
    /\ string \in NormInputs
    /\ words = << >>
    /\ out = << >>
    /\ pc = "findall"

\* Line 30
ToSnakeFindall ==
    /\ pc = "findall"
    /\ words' = Findall(string)
    /\ pc' = "subst"
    /\ UNCHANGED <<dw, SPECIAL_KEYS, call, ret, deleted, nops, string, out>>

\* Lines 35-36
ToSnakeSubst ==
    /\ pc = "subst"
    /\ words' = SubstDigits(words)
    /\ pc' = "join"
    /\ UNCHANGED <<dw, SPECIAL_KEYS, call, ret, deleted, nops, string, out>>

\* Line 38
ToSnakeJoin ==
    /\ pc = "join"
    /\ out' = Lower(Join(words))
    /\ pc' = "returned"
    /\ UNCHANGED <<dw, SPECIAL_KEYS, call, ret, deleted, nops, string, words>>

\* dw[1] = DotWizPlus({string: value})
Construct(value) ==
    LET r == NewDotWizPlus(SPECIAL_KEYS, << <<string, value>> >>)
    IN  /\ pc = "returned"
        /\ dw' = [dw EXCEPT ![1] = r.self]
        /\ SPECIAL_KEYS' = r.cache
        /\ call' = Call("DotWizPlus", 1, << >>, None, << <<string, value>> >>, << >>)
        /\ ret' = r.self
        /\ nops' = nops + 1
        /\ pc' = "constructed"
        /\ UNCHANGED <<deleted, string, words, out>>

NextNorm ==
    \/ ToSnakeFindall
    \/ ToSnakeSubst
    \/ ToSnakeJoin
    \/ \E value \in Scalars : Construct(value)

SpecNorm == InitNorm /\ [][NextNorm]_vars

(***************************************************************************)
(* Properties.                                                             *)
(***************************************************************************)
\* m[k], or KeyError when k is no key of m.
Lookup(m, k) == IF k \in DOMAIN m THEN m[k] ELSE KeyError

\* The last call's container, as the call left it.
Self == dw[call.inst]

\* A key the normaliser rewrites: not lowercase, or no identifier.
IsSpecial(key) == key # Lower(key) \/ ~IsIdentifier(key)

IsReserved(key) == is_keyword(Lower(key))

\* The key of the mapping view a key is to be stored under, and the name
\* of the attribute view it is then bound to.
StoreName(key) ==
    IF IsReserved(key) THEN key
    ELSE IF IsSpecial(key) THEN to_snake_case(key) ELSE key

AttrName(key) ==
    IF IsReserved(key) THEN Lower(key) \o <<"_">> ELSE StoreName(key)

\* What the last call inserted, when it inserted exactly one pair.
InsertedOne ==
    \/ call.op = "setitem"
    \/ call.op = "update" /\ Len(call.input_dict) + Len(call.kwargs) = 1

InsertedKey ==
    IF call.op = "setitem" THEN call.key
    ELSE (call.input_dict \o call.kwargs)[1][1]

InsertedValue ==
    IF call.op = "setitem" THEN call.value
    ELSE (call.input_dict \o call.kwargs)[1][2]

\* C1: after a delete of a present key (del dw[k], del dw.k) the key is in
\* neither view: it is no key of the mapping, it is not bound in the
\* attribute view, and dw[k] and dw.k both fail.
C1_DeleteRemovesFromBothViews ==
    (call.op = "delitem" /\ ret = None) =>
        /\ call.key \notin DOMAIN Self.map
        /\ call.key \notin DOMAIN Self.attrs
        /\ getitem(Self, call.key) = KeyError
        /\ getattr(Self, call.key) = KeyError

\* C2: after a key whose lowercase form is a reserved word is inserted
\* with value v (by item assignment or by update/the constructor), dw[k]
\* returns v under the original form, and attribute access returns v under
\* the reserved form and under <lowercase k>_.
C2_ReservedWordAccess ==
    (InsertedOne /\ IsReserved(InsertedKey) /\ InsertedValue \in Scalars) =>
        /\ getitem(Self, InsertedKey) = InsertedValue
        /\ getattr(Self, InsertedKey) = InsertedValue
        /\ getattr(Self, Lower(InsertedKey) \o <<"_">>) = InsertedValue

\* C3: make_dot_wiz_plus(pairs, **kwargs) binds a key that is both in the
\* pairs and in the keyword arguments to the keyword argument's value.
C3_MakeKeywordsWin ==
    call.op = "make_dot_wiz_plus" =>
        \A j \in 1..Len(call.kwargs) :
            LET k == call.kwargs[j][1]
                v == call.kwargs[j][2]
            IN  k \in KeysOf(call.input_dict) =>
                    /\ Lookup(Self.map, StoreName(k)) = v
                    /\ Lookup(Self.attrs, AttrName(k)) = v

\* C4: DotWizPlus({'key-3': v}) makes v the attribute key_3.
C4_Key3Attribute ==
    (pc = "constructed" /\ string = k_key3) =>
        getattr(dw[1], k_key_3) = call.input_dict[1][2]

\* C5: on a container no key was deleted from, every key of the mapping
\* view is bound in the attribute view (under <lowercase k>_ when its
\* lowercase form is a reserved word) to the value the mapping holds.
C5_ViewsConsistent ==
    \A i \in Inst :
        ~deleted[i] =>
            \A k \in DOMAIN dw[i].map :
                LET name == IF IsReserved(k) THEN Lower(k) \o <<"_">> ELSE k
                IN  /\ name \in DOMAIN dw[i].attrs
                    /\ dw[i].attrs[name] = dw[i].map[k]

\* The keys the loop of update reaches after key k of the positional dict:
\* the later keys of that dict, then the keyword arguments it does not hold.
LaterKeys(k, input_dict, kwargs) ==
    {input_dict[b][1] : b \in {b \in 1..Len(input_dict) :
                                 \E a \in 1..(b - 1) : input_dict[a][1] = k}}
        \cup (KeysOf(kwargs) \ KeysOf(input_dict))

\* The keyword pairs of the last update whose key the non-empty positional
\* dict holds too.
CollidingKw ==
    IF call.op = "update" /\ Len(call.input_dict) > 0
    THEN {j \in 1..Len(call.kwargs) : call.kwargs[j][1] \in KeysOf(call.input_dict)}
    ELSE {}

\* C6 as stated: after update (or the constructor) with a non-empty
\* positional dict, a keyword pair (k, v) whose key the dict holds leaves v
\* under k's storage key.
C6_KeywordsWinAlways ==
    \A j \in CollidingKw :
        Lookup(Self.map, StoreName(call.kwargs[j][1])) = call.kwargs[j][2]

\* C6 as amended: such a pair leaves v under k's storage key when no key
\* the loop reaches after k has the same storage key, and leaves v bound
\* to k's attribute name when no such key has the same attribute name.
C6_KeywordsWinUnlessOverwritten ==
    \A j \in CollidingKw :
        LET k     == call.kwargs[j][1]
            later == LaterKeys(k, call.input_dict, call.kwargs)
        IN  /\ (\A k2 \in later : StoreName(k2) # StoreName(k)) =>
                   Lookup(Self.map, StoreName(k)) = call.kwargs[j][2]
            /\ (\A k2 \in later : AttrName(k2) # AttrName(k)) =>
                   Lookup(Self.attrs, AttrName(k)) = call.kwargs[j][2]

\* A keyword pair overrode the value of its key in a positional dict of
\* two keys, the other key coming later and stored under another name.
C6_Witness ==
    /\ Len(call.input_dict) = 2
    /\ \E j \in CollidingKw :
          LET k     == call.kwargs[j][1]
              later == LaterKeys(k, call.input_dict, call.kwargs)
          IN  /\ later # {}
              /\ \A k2 \in later : AttrName(k2) # AttrName(k)
              /\ Lookup(Self.map, StoreName(k)) = PyInt(2)
              /\ Lookup(Self.attrs, AttrName(k)) = PyInt(2)

\* C7: dw[k] = v (and dw.k = v) leaves the container and the cache exactly
\* as dw.update({k: v}) would have left them, from every state.
C7_SetItemIsOnePairUpdate ==
    [][call'.op = "setitem" =>
          LET u == upsert_into_dot_wiz_plus(dw[call'.inst], SPECIAL_KEYS,
                                            << <<call'.key, call'.value>> >>, << >>)
          IN  /\ dw'[call'.inst] = u.self
              /\ SPECIAL_KEYS' = u.cache]_vars

\* An item assignment of a dict under a key whose normalised form was
\* cached before, on a container that held keys already.
C7_Witness ==
    /\ call.op = "setitem"
    /\ nops >= 2
    /\ call.key \in DOMAIN SPECIAL_KEYS
    /\ call.value.t = "dict"
    /\ Cardinality(DOMAIN Self.map) >= 2

\* Every cache entry maps a key that is rewritten (and not reserved) to
\* its snake case.
CacheEntriesNormalised ==
    \A k \in DOMAIN SPECIAL_KEYS :
        /\ IsSpecial(k)
        /\ ~IsReserved(k)
        /\ SPECIAL_KEYS[k] = to_snake_case(k)

\* The keys the last call inserted into its container.
InsertedKeys ==
    IF call.op = "setitem" THEN {call.key}
    ELSE IF call.op = "update" THEN KeysOf(call.input_dict) \cup KeysOf(call.kwargs)
    ELSE {}

\* A rewritten key is stored under its cache entry.
InsertUsesCachedKey ==
    \A k \in InsertedKeys :
        (IsSpecial(k) /\ ~IsReserved(k)) =>
            /\ k \in DOMAIN SPECIAL_KEYS
            /\ SPECIAL_KEYS[k] \in DOMAIN Self.map
            /\ SPECIAL_KEYS[k] \in DOMAIN Self.attrs

\* No call changes or removes a cache entry.
CacheKept ==
    \A k \in DOMAIN SPECIAL_KEYS :
        k \in DOMAIN SPECIAL_KEYS' /\ SPECIAL_KEYS'[k] = SPECIAL_KEYS[k]

\* C8: every cache entry maps a rewritten, unreserved key k to
\* to_snake_case(k); an entry is never changed or removed; and a key
\* inserted again, in any container, is stored under its cache entry.
C8_CacheDeterministic ==
    [](CacheEntriesNormalised /\ InsertUsesCachedKey) /\ [][CacheKept]_vars

\* The same key was inserted into both containers, the second time by the
\* last call, and both hold it under the cached name.
C8_Witness ==
    /\ call.op = "setitem"
    /\ call.key = k_keyTwo
    /\ nops >= 2
    /\ \A i \in Inst : k_key_two \in DOMAIN dw[i].map
    /\ SPECIAL_KEYS[k_keyTwo] = k_key_two

\* A key of letters only.
IsLetters(s) == \A p \in 1..Len(s) : s[p] \in LowerChars \cup UpperChars

\* A case boundary after position p: a lowercase letter before a capital,
\* or a capital before a capitalised word.
CaseBoundary(s, p) ==
    /\ p + 1 <= Len(s)
    /\ \/ s[p] \in LowerChars /\ s[p + 1] \in UpperChars
       \/ /\ s[p] \in UpperChars
          /\ s[p + 1] \in UpperChars
          /\ p + 2 <= Len(s)
          /\ s[p + 2] \in LowerChars

\* s in lowercase with an underscore at each case boundary, from p on.
RECURSIVE SnakeFrom(_, _)
SnakeFrom(s, p) ==
    IF p > Len(s) THEN << >>
    ELSE (IF CaseBoundary(s, p) THEN <<Lower(s)[p], "_">> ELSE <<Lower(s)[p]>>)
             \o SnakeFrom(s, p + 1)

\* C9: a camelCase/PascalCase key is split at its case boundaries, joined
\* with underscores and lowercased, and the value inserted under it is
\* reachable by attribute and by subscript under that name.
C9_CaseBoundarySegmentation ==
    (pc = "constructed" /\ IsLetters(string) /\ ~IsReserved(string)) =>
        /\ out = SnakeFrom(string, 1)
        /\ getattr(dw[1], SnakeFrom(string, 1)) = call.input_dict[1][2]
        /\ getitem(dw[1], SnakeFrom(string, 1)) = call.input_dict[1][2]

\* The digit table as the specification states it.
StatedDigitLetter(c) ==
    CASE c = "0" -> "o" [] c = "1" -> "i" [] c = "2" -> "z" [] c = "3" -> "e"
      [] c = "4" -> "o" [] c = "5" -> "s" [] c = "6" -> "s" [] c = "7" -> "z"
      [] c = "8" -> "b" [] c = "9" -> "n" [] OTHER -> "x"

=============================================================================
